---- MODULE Spec2Model ----
(***************************************************************************)
(* Model of esp32_simulator.py: the ESP32Simulator class (read_sensors,    *)
(* send_data, run_continuous) and the program entry point main.            *)
(*                                                                         *)
(* Flows are fixed-point numbers.  Values before rounding are counted in   *)
(* ten-thousandths of a litre per minute (3.0 L/min = 30000); the values   *)
(* of a returned sample, rounded to 3 decimals by round(x, 3), are counted *)
(* in thousandths (3.0 L/min = 3000).                                      *)
(***************************************************************************)
EXTENDS Integers, Sequences, FiniteSets, TLC

VARIABLES
    device_id,      \* self.device_id
    api_url,        \* self.api_url
    base_flow,      \* self.base_flow, in ten-thousandths
    pc,             \* position of the single thread of control
    test_data,      \* main's local test_data
    sensor_data,    \* run_continuous's local sensor_data
    main_success,   \* main's local success ("unbound" at first)
    loop_success,   \* run_continuous's local success ("unbound" at first)
    interval_seconds, \* run_continuous's parameter (0 before the call)
    now,            \* the wall clock read by datetime.now
    stdout,         \* the lines printed by the last step
    exit_cause,     \* how the program ended ("" while it runs)
    draws,          \* history: the random draws of the last read_sensors call
    generated,      \* history: the sample returned by the last read_sensors call
    unsent,         \* history: that sample has not been passed to send_data yet
    posted,         \* history: the JSON payload of the last POST
    reply,          \* history: what the last POST met (status / transport error)
    outcome,        \* history: how the last send_data call ended
    sleeps,         \* history: the sleeps since the last send_data call
    loop_sent,      \* history: run_continuous has called send_data
    failures,       \* history: consecutive failed sends in the loop (saturating)
    interrupted_at, \* history: where a KeyboardInterrupt arrived ("" if none)
    json_error      \* the class of the error response.json() raises

vars == <<device_id, api_url, base_flow, pc, test_data, sensor_data, main_success, loop_success,
          interval_seconds, now, stdout, exit_cause, draws, generated, unsent,
          posted, reply, outcome, sleeps, loop_sent, failures,
          interrupted_at, json_error>>

----------------------------------------------------------------------------
(* Bounds of the model *)

\* the clock takes the values 0..MaxTime and then stands still
MaxTime == 1
\* consecutive failures are counted up to MaxFailures
MaxFailures == 3
\* the grid, in ten-thousandths, from which the generator's draws are taken
\* when read_sensors is checked alone
GridStep == 125
\* the coarser grid of the draws made by the running program
LoopGridStep == 7000

----------------------------------------------------------------------------
(* Program constants *)

\* self.base_flow = 3.0, in ten-thousandths
BaseFlow == 30000
\* random.uniform(-0.2, 0.2)
VariationMax == 2000
\* leak_probability = 0.2, in hundredths
LeakProbability == 20
\* random.uniform(0.1, 0.8)
LeakMin == 1000
LeakMax == 8000
\* random.uniform(0, 0.1)
NormalMax == 1000
\* ten-thousandths per thousandth: round(x, 3)
RoundUnit == 10
\* response.status_code == 201
Created == 201
\* a backoff that grows with the failures in a row
BackoffGrowing == 10 * failures

\* time.sleep(10) after a failed send
BackoffSeconds == 10
\* time.sleep(2) in main
WarmupSleep == 2
\* run_continuous(interval_seconds=3) in main
MainInterval == 3

None == [none |-> TRUE]

----------------------------------------------------------------------------
(* read_sensors *)

\* max(0, x) without the clamp
ClampOff(x) == x

\* max(0, x)
Clamp(x) == IF x < 0 THEN 0 ELSE x

\* round(x, 3): ten-thousandths to the nearest thousandth, ties to even
Round3(x) ==
    LET q == x \div RoundUnit
        r == x % RoundUnit
    IN  IF 2 * r > RoundUnit THEN q + 1
        ELSE IF 2 * r < RoundUnit THEN q
        ELSE IF q % 2 = 0 THEN q ELSE q + 1

\* random.random() < leak_probability
IsLeak(d) == d.chance < LeakProbability

\* line 42 with the subtraction turned into an addition
OutputFlowAdded(input_flow, d) ==
    IF IsLeak(d) THEN Clamp(input_flow - d.amount)
    ELSE Clamp(input_flow + d.amount)

\* output_flow before rounding, from input_flow before rounding
OutputFlow(input_flow, d) ==
    IF IsLeak(d) THEN Clamp(input_flow - d.amount)
    ELSE Clamp(input_flow - d.amount)

\* input_flow before rounding
InputFlow(base, d) == Clamp(base + d.variation)

\* the sample read_sensors returns for the draws d at clock reading t
read_sensors(base, dev, d, t) ==
    LET input_flow == InputFlow(base, d)
        output_flow == OutputFlow(input_flow, d)
    IN  [inputFlow |-> Round3(input_flow),
         outputFlow |-> Round3(output_flow),
         timestamp |-> t,
         deviceId |-> dev]

\* the values random.uniform(lo, hi) is drawn from, on a grid that starts at lo
Uniform(lo, hi, step) == {x \in lo..hi : (x - lo) % step = 0}

\* the draws of one read_sensors call: the variation, random.random() in
\* hundredths, and the amount of the branch taken
Draws(step, chances) ==
    {[variation |-> v, chance |-> c, amount |-> a] :
        v \in Uniform(-VariationMax, VariationMax, step),
        c \in {x \in chances : x < LeakProbability},
        a \in Uniform(LeakMin, LeakMax, step)}
    \cup
    {[variation |-> v, chance |-> c, amount |-> a] :
        v \in Uniform(-VariationMax, VariationMax, step),
        c \in {x \in chances : x >= LeakProbability},
        a \in Uniform(0, NormalMax, step)}

----------------------------------------------------------------------------
(* send_data *)

\* a printed line: its text and the value formatted into it (0 if none)
Line(text, value) == [text |-> text, value |-> value]

\* the status codes the endpoint answers with
Statuses == {200, Created, 500}

\* the keys of data / data.processed the success report reads
Fields == {"leakDetected", "severity", "severityScore", "totalReadings"}

\* what a POST can meet: a transport error raised by session.post, or a
\* response with a status code and a body (JSON or not, the keys present,
\* the value of leakDetected).  A body that is not JSON has no keys.
Transports == {"ConnectionError", "Timeout"}

Bodies ==
    {[json |-> FALSE, fields |-> {}, leakDetected |-> FALSE]}
    \cup
    {[json |-> TRUE, fields |-> f, leakDetected |-> l] :
        f \in SUBSET Fields, l \in BOOLEAN}

Responses ==
    {[kind |-> "transport", error |-> e] : e \in Transports}
    \cup
    {[kind |-> "http", status |-> st, json |-> b.json, fields |-> b.fields,
      leakDetected |-> b.leakDetected] : st \in Statuses, b \in Bodies}

\* the keys the success report needs of a body
Needed(r) ==
    IF r.leakDetected THEN Fields ELSE {"leakDetected", "totalReadings"}

\* a body the success report can be printed from
WellFormed(r) == r.json /\ "leakDetected" \in r.fields /\ Needed(r) \subseteq r.fields

\* the status test with any 2xx status taken for a success
IsSuccessStatus2xx(status) == status \in 200..299

\* response.status_code == 201
IsSuccessStatus(status) == status = Created

\* the lines 76-78 print
Report(sample) ==
    <<Line("Data sent successfully", 0),
      Line("Input", sample.inputFlow),
      Line("Output", sample.outputFlow)>>

\* lines 75-85: the 201 branch.  response.json() fails on a body that is
\* not JSON; the error is a RequestException or a plain ValueError
\* depending on the requests release (jerr).  A missing key raises KeyError
\* at the line that reads it, after the lines before it have printed.
Accepted(sample, r, jerr) ==
    IF ~r.json
    THEN IF jerr = "RequestException"
         THEN [ret |-> "False", exc |-> "",
               out |-> <<Line("Network error", 0)>>]
         ELSE [ret |-> "raise", exc |-> "JSONDecodeError", out |-> <<>>]
    ELSE IF "leakDetected" \notin r.fields
    THEN [ret |-> "raise", exc |-> "KeyError", out |-> Report(sample)]
    ELSE IF r.leakDetected /\ ~({"severity", "severityScore"} \subseteq r.fields)
    THEN [ret |-> "raise", exc |-> "KeyError",
          out |-> Report(sample) \o <<Line("Leak", 1)>>]
    ELSE IF "totalReadings" \notin r.fields
    THEN [ret |-> "raise", exc |-> "KeyError",
          out |-> Report(sample) \o <<Line("Leak", IF r.leakDetected THEN 1 ELSE 0)>>
                  \o (IF r.leakDetected THEN <<Line("Severity", 0)>> ELSE <<>>)]
    ELSE [ret |-> "True", exc |-> "",
          out |-> Report(sample) \o <<Line("Leak", IF r.leakDetected THEN 1 ELSE 0)>>
                  \o (IF r.leakDetected THEN <<Line("Severity", 0)>> ELSE <<>>)
                  \o <<Line("Total readings stored", 0)>>]

\* send_data with the transport error reported through the line of the
\* status failure
send_data_one_report(sample, r, jerr) ==
    IF r.kind = "transport"
    THEN [ret |-> "False", exc |-> "", out |-> <<Line("Error", 0)>>]
    ELSE IF IsSuccessStatus(r.status)
    THEN Accepted(sample, r, jerr)
    ELSE [ret |-> "False", exc |-> "", out |-> <<Line("Error", r.status)>>]

\* send_data(sensor_data) when the POST meets r: what it returns ("True",
\* "False") or that it raises, and the lines it prints
send_data(sample, r, jerr) ==
    IF r.kind = "transport"
    THEN [ret |-> "False", exc |-> "", out |-> <<Line("Network error", 0)>>]
    ELSE IF IsSuccessStatus(r.status)
    THEN Accepted(sample, r, jerr)
    ELSE [ret |-> "False", exc |-> "", out |-> <<Line("Error", r.status)>>]

\* what is remembered of a POST
Met(r) ==
    IF r.kind = "transport"
    THEN [kind |-> "transport", status |-> 0, wellformed |-> FALSE]
    ELSE [kind |-> "http", status |-> r.status, wellformed |-> WellFormed(r)]

----------------------------------------------------------------------------
(* The program: main and run_continuous *)

\* the draws the running program makes
LoopDraws == Draws(LoopGridStep, {LeakProbability - 1, LeakProbability})

\* the statements inside the try block of run_continuous
InTry(p) == p \in {"loop_read", "loop_send", "loop_backoff", "loop_wait"}

\* how the program has not ended
Running == [how |-> "", uncaught |-> ""]

\* an exception no handler takes: it leaves main
Uncaught(exc) == [how |-> "uncaught", uncaught |-> exc]

\* the handlers of run_continuous without the except Exception clause
LoopExceptInterruptOnly(exc) ==
    IF exc = "KeyboardInterrupt"
    THEN [how |-> "stopped_by_user", uncaught |-> ""]
    ELSE Uncaught(exc)

\* the handlers of run_continuous without the except KeyboardInterrupt clause
LoopExceptErrorsOnly(exc) ==
    IF exc = "KeyboardInterrupt"
    THEN Uncaught(exc)
    ELSE [how |-> "unexpected_error", uncaught |-> ""]

\* the handlers of run_continuous: except KeyboardInterrupt, except Exception
LoopExcept(exc) ==
    IF exc = "KeyboardInterrupt"
    THEN [how |-> "stopped_by_user", uncaught |-> ""]
    ELSE [how |-> "unexpected_error", uncaught |-> ""]

\* what the handler that took the exception prints
LoopExceptLine(cause) ==
    IF cause.how = "stopped_by_user" THEN <<Line("Simulator stopped by user", 0)>>
    ELSE IF cause.how = "unexpected_error" THEN <<Line("Unexpected error", 0)>>
    ELSE <<>>

\* a failed send that gives up after two failures in a row
AfterFailureLimited(f) == IF f >= 2 THEN "exit" ELSE "loop_backoff"

\* where a failed send of the loop goes: the backoff sleep
AfterFailure(f) == "loop_backoff"

\* the sample the loop sends when the failed one is kept for the retry
LoopSampleKept(fresh) ==
    IF loop_sent /\ outcome.ret = "False" THEN sensor_data ELSE fresh

\* the sample the loop sends: the one read_sensors just returned
LoopSample(fresh) == fresh

\* the clock does not run backwards
Clock == {t \in 0..MaxTime : t >= now}

\* one more, up to the bound
Count(n) == IF n < MaxFailures THEN n + 1 ELSE n

Init ==
    /\ device_id = "ESP32_SIMULATOR_001"
    /\ api_url = "http://localhost:3000/api/ingest"
    /\ base_flow = BaseFlow
    /\ pc = "main_read"
    /\ test_data = None
    /\ sensor_data = None
    /\ main_success = "unbound"
    /\ loop_success = "unbound"
    /\ interval_seconds = 0
    /\ now = 0
    /\ stdout = <<>>
    /\ exit_cause = Running
    /\ draws = None
    /\ generated = None
    /\ unsent = FALSE
    /\ posted = None
    /\ reply = None
    /\ outcome = None
    /\ sleeps = <<>>
    /\ loop_sent = FALSE
    /\ failures = 0
    /\ interrupted_at = ""
    /\ json_error \in {"RequestException", "ValueError"}

\* lines 129-131: test_data = simulator.read_sensors(), printed
MainReadSensors ==
    /\ pc = "main_read"
    /\ \E d \in LoopDraws, t \in Clock :
        LET fresh == read_sensors(base_flow, device_id, d, t)
        IN  /\ test_data' = fresh
            /\ generated' = fresh
            /\ draws' = d
            /\ now' = t
            /\ stdout' = <<Line("Testing single sensor reading", 0),
                           Line("Generated data", 0)>>
    /\ unsent' = TRUE
    /\ pc' = "main_send"
    /\ UNCHANGED <<device_id, api_url, base_flow, sensor_data, main_success, loop_success,
                   interval_seconds, exit_cause, posted, reply,
                   outcome, sleeps, loop_sent, failures, interrupted_at,
                   json_error>>

\* lines 134-141: success = simulator.send_data(test_data) and the branch on it
MainSendData ==
    /\ pc = "main_send"
    /\ \E r \in Responses :
        LET res == send_data(test_data, r, json_error)
        IN  /\ reply' = Met(r)
            /\ outcome' = [ret |-> res.ret, exc |-> res.exc, at |-> "main"]
            /\ IF res.ret = "True"
               THEN /\ main_success' = "True"
                    /\ stdout' = res.out \o <<Line("Test successful", 0)>>
                    /\ pc' = "main_sleep"
                    /\ exit_cause' = exit_cause
               ELSE IF res.ret = "False"
               THEN /\ main_success' = "False"
                    /\ stdout' = res.out \o <<Line("Test failed", 0)>>
                    /\ pc' = "exit"
                    /\ exit_cause' = [how |-> "test_failed", uncaught |-> ""]
               ELSE /\ main_success' = main_success
                    /\ stdout' = res.out
                    /\ pc' = "exit"
                    /\ exit_cause' = Uncaught(res.exc)
    /\ posted' = test_data
    /\ unsent' = FALSE
    /\ sleeps' = <<>>
    /\ UNCHANGED <<device_id, api_url, base_flow, test_data, sensor_data,
                   loop_success,
                   interval_seconds, now, draws, generated, loop_sent, failures,
                   interrupted_at, json_error>>

\* line 138: time.sleep(2)
MainSleep ==
    /\ pc = "main_sleep"
    /\ sleeps' = Append(sleeps, WarmupSleep)
    /\ stdout' = <<>>
    /\ pc' = "run_banner"
    /\ UNCHANGED <<device_id, api_url, base_flow, test_data, sensor_data, main_success, loop_success,
                   interval_seconds, now, exit_cause, draws, generated, unsent,
                   posted, reply, outcome, loop_sent, failures,
                   interrupted_at, json_error>>

\* lines 139, 98-101: run_continuous(interval_seconds=3) prints its banner
RunBanner ==
    /\ pc = "run_banner"
    /\ interval_seconds' = MainInterval
    /\ stdout' = <<Line("Starting ESP32 Simulator", 0), Line("Sending data to", 0),
                   Line("Interval", MainInterval), Line("Press Ctrl+C to stop", 0)>>
    /\ pc' = "loop_read"
    /\ UNCHANGED <<device_id, api_url, base_flow, test_data, sensor_data, main_success, loop_success,
                   now, exit_cause, draws, generated, unsent, posted, reply, outcome, sleeps, loop_sent, failures, interrupted_at,
                   json_error>>

\* line 106 with a read_sensors that keeps its input flow as the new
\* self.base_flow
LoopReadSensorsDrift ==
    /\ pc = "loop_read"
    /\ \E d \in LoopDraws, t \in Clock :
        LET fresh == read_sensors(base_flow, device_id, d, t)
        IN  /\ sensor_data' = LoopSample(fresh)
            /\ generated' = fresh
            /\ draws' = d
            /\ now' = t
            /\ base_flow' = InputFlow(base_flow, d)
    /\ unsent' = TRUE
    /\ stdout' = <<>>
    /\ pc' = "loop_send"
    /\ UNCHANGED <<device_id, api_url, test_data, main_success, loop_success,
                   interval_seconds, exit_cause, posted, reply,
                   outcome, sleeps, loop_sent, failures, interrupted_at,
                   json_error>>

\* line 106: sensor_data = self.read_sensors()
LoopReadSensors ==
    /\ pc = "loop_read"
    /\ \E d \in LoopDraws, t \in Clock :
        LET fresh == read_sensors(base_flow, device_id, d, t)
        IN  /\ sensor_data' = LoopSample(fresh)
            /\ generated' = fresh
            /\ draws' = d
            /\ now' = t
    /\ unsent' = TRUE
    /\ stdout' = <<>>
    /\ pc' = "loop_send"
    /\ UNCHANGED <<device_id, api_url, base_flow, test_data, main_success, loop_success,
                   interval_seconds, exit_cause, posted, reply,
                   outcome, sleeps, loop_sent, failures, interrupted_at,
                   json_error>>

\* lines 109-116 and 121-122: success = self.send_data(sensor_data), the
\* branch on it, and the except Exception clause when send_data raises
LoopSendData ==
    /\ pc = "loop_send"
    /\ \E r \in Responses :
        LET res == send_data(sensor_data, r, json_error)
        IN  /\ reply' = Met(r)
            /\ outcome' = [ret |-> res.ret, exc |-> res.exc, at |-> "loop"]
            /\ IF res.ret = "True"
               THEN /\ loop_success' = "True"
                    /\ stdout' = res.out \o <<Line("Waiting", interval_seconds)>>
                    /\ pc' = "loop_wait"
                    /\ exit_cause' = exit_cause
                    /\ failures' = 0
               ELSE IF res.ret = "False"
               THEN /\ loop_success' = "False"
                    /\ stdout' = res.out \o <<Line("Retrying in 10 seconds", 0)>>
                    /\ pc' = AfterFailure(failures)
                    /\ exit_cause' = exit_cause
                    /\ failures' = Count(failures)
               ELSE /\ loop_success' = loop_success
                    /\ stdout' = res.out \o LoopExceptLine(LoopExcept(res.exc))
                    /\ pc' = "exit"
                    /\ exit_cause' = LoopExcept(res.exc)
                    /\ failures' = failures
    /\ posted' = sensor_data
    /\ unsent' = FALSE
    /\ sleeps' = <<>>
    /\ loop_sent' = TRUE
    /\ UNCHANGED <<device_id, api_url, base_flow, test_data, sensor_data,
                   main_success,
                   interval_seconds, now, draws, generated, interrupted_at,
                   json_error>>

\* lines 113-114: time.sleep(10); continue
LoopBackoff ==
    /\ pc = "loop_backoff"
    /\ sleeps' = Append(sleeps, BackoffSeconds)
    /\ stdout' = <<>>
    /\ pc' = "loop_read"
    /\ UNCHANGED <<device_id, api_url, base_flow, test_data, sensor_data, main_success, loop_success,
                   interval_seconds, now, exit_cause, draws, generated, unsent,
                   posted, reply, outcome, loop_sent, failures,
                   interrupted_at, json_error>>

\* line 117: time.sleep(interval_seconds)
LoopWait ==
    /\ pc = "loop_wait"
    /\ sleeps' = Append(sleeps, interval_seconds)
    /\ stdout' = <<>>
    /\ pc' = "loop_read"
    /\ UNCHANGED <<device_id, api_url, base_flow, test_data, sensor_data, main_success, loop_success,
                   interval_seconds, now, exit_cause, draws, generated, unsent,
                   posted, reply, outcome, loop_sent, failures,
                   interrupted_at, json_error>>

\* Ctrl+C: a KeyboardInterrupt is raised at the statement being executed.
\* Inside the try block of run_continuous lines 119-120 take it; anywhere
\* else nothing does and it leaves main.
KeyboardInterrupt ==
    /\ pc # "exit"
    /\ interrupted_at' = pc
    /\ exit_cause' = IF InTry(pc) THEN LoopExcept("KeyboardInterrupt")
                     ELSE Uncaught("KeyboardInterrupt")
    /\ stdout' = IF InTry(pc) THEN LoopExceptLine(LoopExcept("KeyboardInterrupt"))
                 ELSE <<>>
    /\ pc' = "exit"
    /\ UNCHANGED <<device_id, api_url, base_flow, test_data, sensor_data, main_success, loop_success,
                   interval_seconds, now, draws, generated, unsent, posted,
                   reply, outcome, sleeps, loop_sent, failures,
                   json_error>>

\* the steps the program takes by itself
Step ==
    \/ MainReadSensors
    \/ MainSendData
    \/ MainSleep
    \/ RunBanner
    \/ LoopReadSensors
    \/ LoopSendData
    \/ LoopBackoff
    \/ LoopWait

Next == Step \/ KeyboardInterrupt

Spec == Init /\ [][Next]_vars

\* every statement of the program returns: a step that can be taken is taken
FairSpec == Spec /\ WF_vars(Step)

----------------------------------------------------------------------------
(* read_sensors alone: one call on a simulator whose base_flow is any of   *)
(* BaseFlows, with the draws taken from the fine grid                      *)

\* the values of self.base_flow read_sensors is checked with: 0.0, 0.1, 3.0
BaseFlows == {0, LeakMin, BaseFlow}

\* the draws of the call checked alone
SensorDraws == Draws(GridStep, {LeakProbability - 1, LeakProbability})

SensorInit ==
    /\ device_id = "ESP32_SIMULATOR_001"
    /\ api_url = "http://localhost:3000/api/ingest"
    /\ base_flow \in BaseFlows
    /\ pc = "call"
    /\ test_data = None
    /\ sensor_data = None
    /\ main_success = "unbound"
    /\ loop_success = "unbound"
    /\ interval_seconds = 0
    /\ now = 0
    /\ stdout = <<>>
    /\ exit_cause = Running
    /\ draws = None
    /\ generated = None
    /\ unsent = FALSE
    /\ posted = None
    /\ reply = None
    /\ outcome = None
    /\ sleeps = <<>>
    /\ loop_sent = FALSE
    /\ failures = 0
    /\ interrupted_at = ""
    /\ json_error = "RequestException"

\* lines 25-53: sensor_data = simulator.read_sensors()
ReadSensorsCall ==
    /\ pc = "call"
    /\ \E d \in SensorDraws, t \in Clock :
        LET fresh == read_sensors(base_flow, device_id, d, t)
        IN  /\ sensor_data' = fresh
            /\ generated' = fresh
            /\ draws' = d
            /\ now' = t
    /\ unsent' = TRUE
    /\ pc' = "returned"
    /\ UNCHANGED <<device_id, api_url, base_flow, test_data, main_success, loop_success,
                   interval_seconds, stdout, exit_cause, posted, reply, outcome, sleeps, loop_sent, failures, interrupted_at,
                   json_error>>

SensorNext == ReadSensorsCall

SensorSpec == SensorInit /\ [][SensorNext]_vars

----------------------------------------------------------------------------
(* Properties of read_sensors *)

\* |x|
Abs(x) == IF x < 0 THEN -x ELSE x

\* a sample has been returned by one of the read_sensors calls
Returned == generated # None

\* C8: every sample read_sensors returns has inputFlow >= 0 and
\* outputFlow >= 0, whatever the variation, the branch and the amount.
C8_FlowsNonNegative ==
    Returned => generated.inputFlow >= 0 /\ generated.outputFlow >= 0

\* C8 witness: a sample was returned where both clamps acted (the base flow
\* plus the variation is negative, and so is the input minus the amount).
C8_Witness ==
    /\ Returned
    /\ base_flow + draws.variation < 0
    /\ IsLeak(draws)
    /\ generated.inputFlow = 0
    /\ generated.outputFlow = 0

\* C9 as stated: the sample's own (3-decimal) inputFlow and outputFlow
\* satisfy outputFlow = max(0, inputFlow - amount) with the amount drawn,
\* which is in [0.1, 0.8] in the leak branch and in [0, 0.1] in the normal one.
C9_AsStated ==
    Returned =>
        /\ IF IsLeak(draws) THEN draws.amount \in LeakMin..LeakMax
           ELSE draws.amount \in 0..NormalMax
        /\ generated.outputFlow * RoundUnit
             = Clamp(generated.inputFlow * RoundUnit - draws.amount)

\* C9 amended: the branch formula holds of the values before rounding, so
\* the sample's 3-decimal values satisfy it to within 0.001:
\* |outputFlow - max(0, inputFlow - amount)| <= 0.001, with the amount in
\* [0.1, 0.8] (leak) or [0, 0.1] (normal); they satisfy it exactly when the
\* base flow, the variation and the amount are whole thousandths, so that
\* baseFlow 3.0, variation 0, leak amount 0.5 gives inputFlow 3.0 and
\* outputFlow 2.5.
C9_BranchFormulaRounded ==
    Returned =>
        /\ IF IsLeak(draws) THEN draws.amount \in LeakMin..LeakMax
           ELSE draws.amount \in 0..NormalMax
        /\ Abs(generated.outputFlow * RoundUnit
               - Clamp(generated.inputFlow * RoundUnit - draws.amount)) <= RoundUnit
        /\ (/\ base_flow % RoundUnit = 0
            /\ draws.variation % RoundUnit = 0
            /\ draws.amount % RoundUnit = 0)
           => generated.outputFlow * RoundUnit
                = Clamp(generated.inputFlow * RoundUnit - draws.amount)
        /\ (/\ base_flow = 30000
            /\ draws.variation = 0
            /\ IsLeak(draws)
            /\ draws.amount = 5000)
           => generated.inputFlow = 3000 /\ generated.outputFlow = 2500

\* C9 witness: a leak-branch sample whose variation is not a whole
\* thousandth and whose 3-decimal values miss the formula by the full 0.001.
C9_Witness ==
    /\ Returned
    /\ IsLeak(draws)
    /\ draws.variation % RoundUnit # 0
    /\ Abs(generated.outputFlow * RoundUnit
           - Clamp(generated.inputFlow * RoundUnit - draws.amount)) = RoundUnit

----------------------------------------------------------------------------
(* Properties of the program *)

\* the last send_data call was the warm-up send of main
WarmupSent == outcome # None /\ outcome.at = "main"

\* the last send_data call was made by run_continuous
LoopSent == outcome # None /\ outcome.at = "loop"

\* the statements of run_continuous
InLoop == pc \in {"run_banner", "loop_read", "loop_send", "loop_backoff", "loop_wait"}

\* C1: the loop is entered only after a successful warm-up send; a warm-up
\* send that did not succeed (non-201, transport error, malformed 201 body)
\* makes main print its diagnostic and end, the loop never entered and no
\* further send issued.
C1_WarmupGate ==
    /\ InLoop \/ loop_sent => main_success = "True" /\ test_data # None
    /\ WarmupSent /\ outcome.ret # "True" =>
        /\ pc = "exit"
        /\ exit_cause = [how |-> "test_failed", uncaught |-> ""]
        /\ Len(stdout) > 0
        /\ stdout[Len(stdout)] = Line("Test failed", 0)
        /\ ~loop_sent
        /\ sensor_data = None
        /\ posted = test_data

\* C2: between two consecutive sends of run_continuous exactly one sleep
\* occurs: 10 seconds if the earlier send failed, however many failed in a
\* row before it, and interval_seconds if it succeeded.
C2_OneSleepBetweenSends ==
    /\ pc \in {"loop_read", "loop_send"} /\ loop_sent =>
        sleeps = <<IF outcome.ret = "True" THEN interval_seconds ELSE 10>>
    /\ pc = "loop_backoff" => outcome.ret = "False" /\ sleeps = <<>>
    /\ pc = "loop_wait" => outcome.ret = "True" /\ sleeps = <<>>

\* C2 witness: the loop is about to send again after three failed sends in a
\* row, and the one sleep since the last of them was 10 seconds.
C2_Witness ==
    /\ pc = "loop_send"
    /\ loop_sent
    /\ outcome.ret = "False"
    /\ failures >= 3
    /\ sleeps = <<10>>

\* C3: a failed send (transport error or non-201, in any mix) never ends
\* the loop, it leads to the backoff; and unless an interrupt arrives or an
\* unexpected error is raised (or the warm-up failed), run_continuous goes
\* on sending for ever.
C3_RetriesForever ==
    /\ [][pc = "loop_send" /\ outcome'.ret = "False" /\ interrupted_at' = ""
            => pc' = "loop_backoff" /\ exit_cause' = Running]_vars
    /\ \/ []<>(pc \in {"loop_backoff", "loop_wait"})
       \/ <>(exit_cause # Running)

\* C3 witness: after three failed sends in a row, a transport error the
\* last, run_continuous is about to send again.
C3_Witness ==
    /\ pc = "loop_send"
    /\ failures >= 3
    /\ reply.kind = "transport"
    /\ exit_cause = Running

\* C4: a malformed body on a 201 reply makes send_data return the failure
\* result, not raise, so that the loop backs off and retries.
C4_MalformedBodyIsFailure ==
    outcome # None /\ reply.kind = "http" /\ reply.status = 201 /\ ~reply.wellformed =>
        /\ outcome.ret = "False"
        /\ exit_cause.how \notin {"unexpected_error", "uncaught"}
              \/ interrupted_at # ""

\* C5: send_data reports success only when the status is exactly 201; for
\* every other status it returns failure and does not raise.
C5_SuccessOnly201 ==
    outcome # None =>
        /\ outcome.ret = "True" => reply.kind = "http" /\ reply.status = 201
        /\ reply.kind = "http" /\ reply.status # 201 =>
             outcome.ret = "False" /\ outcome.exc = ""

\* C5 witness: a send of the loop met status 200 and returned failure.
C5_Witness ==
    /\ LoopSent
    /\ reply.kind = "http"
    /\ reply.status = 200
    /\ outcome.ret = "False"
    /\ loop_success = "False"

\* an interrupt arrived while run_continuous was generating, sending or
\* sleeping
InterruptedInLoop ==
    interrupted_at \in {"loop_read", "loop_send", "loop_backoff", "loop_wait"}

\* C6: an interrupt that arrives while the loop generates, sends or sleeps
\* ends the loop cleanly: the farewell is printed, run_continuous returns
\* without propagating it, and nothing is sent or generated afterwards.
C6_InterruptEndsLoop ==
    /\ [](InterruptedInLoop =>
            /\ pc = "exit"
            /\ exit_cause = [how |-> "stopped_by_user", uncaught |-> ""]
            /\ stdout = <<Line("Simulator stopped by user", 0)>>)
    /\ [][InterruptedInLoop =>
            pc' = pc /\ posted' = posted /\ generated' = generated]_vars

\* C6 witness: the interrupt arrived during the backoff sleep.
C6_Witness ==
    /\ interrupted_at = "loop_backoff"
    /\ pc = "exit"

\* send_data raised an error inside the loop body
RaisedInLoop == LoopSent /\ outcome.ret = "raise"

\* C7: an unexpected error raised inside the loop body is caught by
\* run_continuous and logged; the loop ends, nothing is generated or sent
\* afterwards, and the error does not reach the caller.
C7_UnexpectedErrorEndsLoop ==
    /\ [](RaisedInLoop =>
            /\ pc = "exit"
            /\ exit_cause = [how |-> "unexpected_error", uncaught |-> ""]
            /\ stdout[Len(stdout)] = Line("Unexpected error", 0))
    /\ [][RaisedInLoop =>
            pc' = pc /\ posted' = posted /\ generated' = generated]_vars

\* C7 witness: a send of the loop raised KeyError and the loop has ended.
C7_Witness ==
    /\ RaisedInLoop
    /\ outcome.exc = "KeyError"
    /\ pc = "exit"

\* a step that calls send_data
SendStep ==
    /\ pc \in {"main_send", "loop_send"}
    /\ pc' # pc
    /\ interrupted_at' = ""

\* C10: every send transmits the sample the read_sensors call just before
\* it returned, and that sample has not been sent before: the loop does not
\* send the warm-up sample again, and a retry sends a fresh sample.
C10_FreshSampleEachSend ==
    /\ [][SendStep => unsent /\ posted' = generated /\ ~unsent']_vars
    /\ [](pc = "main_send" => test_data = generated /\ unsent)
    /\ [](pc = "loop_send" => sensor_data = generated /\ unsent)

\* C10 witness: after a failed send the loop is about to send a sample that
\* is neither the failed one nor the warm-up sample.
C10_Witness ==
    /\ pc = "loop_send"
    /\ loop_sent
    /\ outcome.ret = "False"
    /\ sensor_data # posted
    /\ sensor_data # test_data

\* send_data has just returned or raised: the lines of stdout are those of
\* the step that called it
JustSent == outcome # None /\ sleeps = <<>> /\ interrupted_at = ""

\* the last step printed a line with this text
Printed(text) == \E i \in 1..Len(stdout) : stdout[i].text = text

\* C11: a transport failure of send_data is reported by the network-error
\* line, a failure by status by the line with the status code; both return
\* failure without raising, and no send prints both lines.
C11_DistinctDiagnostics ==
    JustSent =>
        /\ reply.kind = "transport" =>
             /\ outcome.ret = "False" /\ outcome.exc = ""
             /\ Printed("Network error")
             /\ ~Printed("Error")
        /\ reply.kind = "http" /\ reply.status # 201 =>
             /\ outcome.ret = "False" /\ outcome.exc = ""
             /\ Line("Error", reply.status) \in {stdout[i] : i \in 1..Len(stdout)}
             /\ ~Printed("Network error")
        /\ ~(Printed("Network error") /\ Printed("Error"))

\* C11 witness: a send of the loop met a transport error, returned failure
\* and printed the network-error line.
C11_Witness ==
    /\ JustSent
    /\ LoopSent
    /\ reply.kind = "transport"
    /\ outcome.ret = "False"
    /\ stdout[1] = Line("Network error", 0)
    /\ pc = "loop_backoff"

\* the samples the program holds or has sent
Samples == {test_data, sensor_data, generated, posted} \ {None}

\* C12: no read_sensors or send_data call changes device_id, api_url or
\* base_flow: they keep their constructor values, every sample carries the
\* one deviceId, and each sample is what read_sensors makes of the
\* constructor values and of its own draws and clock reading alone.
C12_ConfigurationUnchanged ==
    /\ device_id = "ESP32_SIMULATOR_001"
    /\ api_url = "http://localhost:3000/api/ingest"
    /\ base_flow = 30000
    /\ \A sample \in Samples : sample.deviceId = "ESP32_SIMULATOR_001"
    /\ generated # None =>
         generated = read_sensors(30000, "ESP32_SIMULATOR_001", draws,
                                  generated.timestamp)

\* C12 witness: after a successful warm-up send and a failed send of the
\* loop, read_sensors has been called again.
C12_Witness ==
    /\ pc = "loop_send"
    /\ main_success = "True"
    /\ loop_success = "False"
    /\ unsent
    /\ generated # posted

\* the lines printed by the last step, as a set
PrintedLines == {stdout[i] : i \in 1..Len(stdout)}

\* C13: when send_data succeeds its report carries the inputFlow and the
\* outputFlow of the sample passed in, and the 'Data sent successfully'
\* report is printed only by a send that returns success.
C13_SuccessReport ==
    JustSent =>
        /\ outcome.ret = "True" =>
             /\ Printed("Data sent successfully")
             /\ {l \in PrintedLines : l.text = "Input"} = {Line("Input", posted.inputFlow)}
             /\ {l \in PrintedLines : l.text = "Output"} = {Line("Output", posted.outputFlow)}
        /\ Printed("Data sent successfully") => outcome.ret = "True"

\* C14: every sample read_sensors returns has outputFlow <= inputFlow, in
\* both branches and after both values are rounded to 3 decimals.
C14_OutputAtMostInput ==
    Returned => generated.outputFlow <= generated.inputFlow

\* C14 witness: a normal-branch sample with nothing subtracted, whose input
\* flow is not a whole thousandth: both values round to the same positive
\* number.
C14_Witness ==
    /\ Returned
    /\ ~IsLeak(draws)
    /\ draws.amount = 0
    /\ (base_flow + draws.variation) % RoundUnit # 0
    /\ generated.inputFlow > 0
    /\ generated.outputFlow = generated.inputFlow

====
